---- MODULE Spec2Model ----
(***************************************************************************)
(* A model of symnet/image/data_utils.py: the image loader (read_images    *)
(* and its worker pool), the label-index reader (read_csv_file), the       *)
(* dataset assembler (load_image_dataset), normalize_images and            *)
(* compute_median_dimensions.                                              *)
(*                                                                         *)
(* The four parts of the file share no state, so each has its own          *)
(* specification (SpecImages, SpecCsv, SpecNorm, SpecMedian) over its own   *)
(* variables; the variables of the other parts stay at their initial       *)
(* values.                                                                 *)
(***************************************************************************)
EXTENDS Integers, Sequences, FiniteSets, TLC

VARIABLES
    \* ---- read_images ----
    imgPc,      \* "idle" | "map" (inside pool.map) | "returned" | "raised"
    imgArgs,    \* the arguments of the call in progress / last call
    pools,      \* every Pool created so far, in creation order: its state
    results,    \* pool.map's result buffer: task index -> decoded image
    arrival,    \* task indices in the order their outcomes reached the parent
    mapError,   \* the error pool.map will re-raise (the first failure reported)
    imgOut,     \* how the last call ended
    ncalls,     \* calls of read_images made so far
    \* ---- read_csv_file / load_image_dataset ----
    csvTable,   \* what pd.read_csv parses from "labels.csv"
    csvArgs,    \* the arguments of the last read_csv_file call
    train_df,   \* train_df as train_test_split returned it (line 105)
    test_df,    \* test_df as train_test_split returned it (line 105)
    csvOut,     \* how the last read_csv_file call ended
    stdout,     \* what the last call printed
    called,     \* which collaborators the last call invoked
    loadArgs,   \* the arguments of the last load_image_dataset call
    loadOut,    \* how the last load_image_dataset call ended
    \* ---- normalize_images ----
    x_train,    \* the train batch passed to the last call
    x_test,     \* the test batch passed to the last call
    normOut,    \* what the call returned
    \* ---- compute_median_dimensions ----
    medImages,  \* the argument of the last call
    medOut      \* what the call returned

imgVars == <<imgPc, imgArgs, pools, results, arrival, mapError, imgOut, ncalls>>

csvVars == <<csvTable, csvArgs, train_df, test_df, csvOut, stdout, called, loadArgs, loadOut>>

pureVars == <<x_train, x_test, normOut, medImages, medOut>>

vars == <<imgVars, csvVars, pureVars>>

----------------------------------------------------------------------------
(* Bounds *)

MaxFiles == 3       \* longest img_file_names list
MaxCalls == 2       \* calls of read_images in one behaviour
MaxRows == 5        \* most rows of the label index
MaxBatch == 2       \* most images in a batch given to normalize_images
MaxImages == 3      \* most images given to compute_median_dimensions

----------------------------------------------------------------------------
(* The file system the image loader sees *)

\* One existing images directory and one path that is no directory.
Dirs == {"imgs", "nodir"}
IsDir(d) == d = "imgs"

\* File names a label index may mention: a colour image, a grayscale image
\* and a name with no file behind it.
FileNames == {"a.png", "g.png", "x.png"}
DiskFiles == {"a.png", "g.png"}

\* os.path.join(images_dir_path, img_file)
PathJoin(d, f) == <<d, f>>

\* os.path.exists(img_path)
PathExists(p) == IsDir(p[1]) /\ p[2] \in DiskFiles

\* imageio.imread(path): the pixel array of the file; only its origin and its
\* shape are kept.  A grayscale file decodes to a 2-D array.
read_image(p) ==
    [src |-> p, shape |-> IF p[2] = "g.png" THEN <<2, 2>> ELSE <<2, 2, 3>>]

NoError == [type |-> "", what |-> "", path |-> <<>>]
ImageMissing(p) == [type |-> "ValueError", what |-> "image does not exist", path |-> p]
DirMissing(d) ==
    [type |-> "ValueError", what |-> "Directory containing images does not exist",
     path |-> <<d>>]

\* A decoder that yields an empty image for a missing file instead of raising.
ImageToArraySkipMissing(p) ==
    IF PathExists(p)
    THEN LET img == read_image(p)
         IN  [ok |-> TRUE,
              img |-> IF Len(img.shape) < 3
                      THEN [img EXCEPT !.shape = Append(img.shape, 1)]
                      ELSE img,
              error |-> NoError]
    ELSE [ok |-> TRUE, img |-> [src |-> p, shape |-> <<>>], error |-> NoError]

\* _image_to_array(img_path): the decoded image with a channel axis, or the
\* ValueError of a missing file.
_image_to_array(p) ==
    IF PathExists(p)
    THEN LET img == read_image(p)
         IN  [ok |-> TRUE,
              img |-> IF Len(img.shape) < 3
                      THEN [img EXCEPT !.shape = Append(img.shape, 1)]
                      ELSE img,
              error |-> NoError]
    ELSE [ok |-> FALSE, img |-> [src |-> p, shape |-> <<>>], error |-> ImageMissing(p)]

\* img_paths of read_images
img_paths(names, d) == [i \in 1..Len(names) |-> PathJoin(d, names[i])]

----------------------------------------------------------------------------
(* read_images *)

NoOut == [kind |-> "none", value |-> <<>>, error |-> NoError]
Returned(v) == [kind |-> "return", value |-> v, error |-> NoError]
Raised(e) == [kind |-> "raise", value |-> <<>>, error |-> e]

\* The list comprehension of the sequential mode: images are decoded in input
\* order and the first failure raises.
RECURSIVE SequentialDecode(_, _)
SequentialDecode(paths, acc) ==
    IF Len(acc) = Len(paths) THEN Returned(acc)
    ELSE LET r == _image_to_array(paths[Len(acc) + 1])
         IN  IF r.ok THEN SequentialDecode(paths, Append(acc, r.img))
             ELSE Raised(r.error)

\* A result buffer filled in completion order.
StoreResultByArrival(buf, i, img) == buf @@ ((Cardinality(DOMAIN buf) + 1) :> img)

\* pool.map's result buffer is addressed by task index: the result of task i
\* is stored in slot i whenever it arrives.
StoreResult(buf, i, img) == buf @@ (i :> img)

\* np.asanyarray(x_train) of a complete buffer: the images in buffer order.
\* (What numpy does with images of different shapes depends on its version
\* and is not modelled.)
AsBatch(buf, n) == [i \in 1..n |-> buf[i]]

EmptyBuf == [i \in {} |-> 0]

\* read_images(img_file_names, images_dir_path, parallel), up to the point
\* where it returns, raises, or blocks in pool.map.
ReadImagesCall(names, d, parallel) ==
    /\ imgPc \in {"idle", "returned", "raised"}
    /\ ncalls < MaxCalls
    /\ ncalls' = ncalls + 1
    /\ imgArgs' = [names |-> names, dir |-> d, parallel |-> parallel]
    /\ results' = EmptyBuf
    /\ arrival' = <<>>
    /\ mapError' = NoError
    /\ IF ~IsDir(d)
       THEN /\ imgPc' = "raised"
            /\ imgOut' = Raised(DirMissing(d))
            /\ pools' = pools
       ELSE IF parallel
       THEN /\ imgPc' = "map"
            /\ imgOut' = NoOut
            /\ pools' = Append(pools, "running")
       ELSE LET r == SequentialDecode(img_paths(names, d), <<>>)
            IN  /\ imgPc' = IF r.kind = "return" THEN "returned" ELSE "raised"
                /\ imgOut' = r
                /\ pools' = pools
    /\ UNCHANGED <<csvVars, pureVars>>

\* Tasks whose outcome has reached the parent process
Arrived == {arrival[k] : k \in 1..Len(arrival)}

\* A worker process finishes task i and its outcome reaches the parent, in
\* any order among the tasks still outstanding.  A result is stored in the
\* buffer while no task has failed; only the first failure is kept.
WorkerComplete(i) ==
    /\ imgPc = "map"
    /\ i \in 1..Len(imgArgs.names)
    /\ i \notin Arrived
    /\ arrival' = Append(arrival, i)
    /\ LET r == _image_to_array(img_paths(imgArgs.names, imgArgs.dir)[i])
       IN  IF mapError # NoError
           THEN UNCHANGED <<results, mapError>>
           ELSE IF r.ok
           THEN /\ results' = StoreResult(results, i, r.img)
                /\ mapError' = mapError
           ELSE /\ results' = results
                /\ mapError' = r.error
    /\ UNCHANGED <<imgPc, imgArgs, pools, imgOut, ncalls>>
    /\ UNCHANGED <<csvVars, pureVars>>

\* pool.map returns the full list; pool.close(); pool.join(); return.
ParallelReturn ==
    /\ imgPc = "map"
    /\ mapError = NoError
    /\ Arrived = 1..Len(imgArgs.names)
    /\ pools' = [pools EXCEPT ![Len(pools)] = "joined"]
    /\ imgOut' = Returned(AsBatch(results, Len(imgArgs.names)))
    /\ imgPc' = "returned"
    /\ UNCHANGED <<imgArgs, results, arrival, mapError, ncalls>>
    /\ UNCHANGED <<csvVars, pureVars>>

\* pool.map re-raises the failure of a task: the exception leaves read_images
\* from line 52, so pool.close() and pool.join() are not executed.
ParallelRaise ==
    /\ imgPc = "map"
    /\ mapError # NoError
    /\ imgOut' = Raised(mapError)
    /\ imgPc' = "raised"
    /\ UNCHANGED <<imgArgs, pools, results, arrival, mapError, ncalls>>
    /\ UNCHANGED <<csvVars, pureVars>>

----------------------------------------------------------------------------
(* read_csv_file *)

Labels == {"A", "B"}

\* The label index on disk.  pd.read_csv is a black box: the parsed table has
\* ncols columns and one row per label; row i names an existing colour or
\* grayscale image, except that the last row of a table with a missing image
\* names a file that does not exist.  The second column of a one-column table
\* is never read, so the label of such a row is a placeholder.
LabelSeqs == UNION {[1..n -> Labels] : n \in 0..MaxRows}
Tables ==
    {[ncols |-> 0, labels |-> <<>>, missing |-> FALSE]} \cup
    {[ncols |-> 1, labels |-> [i \in 1..n |-> "A"], missing |-> FALSE] : n \in 0..MaxRows} \cup
    {[ncols |-> 2, labels |-> l, missing |-> m] : l \in LabelSeqs, m \in BOOLEAN}

RowName(t, i) ==
    IF t.missing /\ i = Len(t.labels) THEN "x.png"
    ELSE IF i % 2 = 1 THEN "a.png" ELSE "g.png"

\* df = pd.read_csv(path): a frame is a sequence of rows, each with its index.
read_csv(t) ==
    [i \in 1..Len(t.labels) |-> [idx |-> i, name |-> RowName(t, i), label |-> t.labels[i]]]

CsvPaths == {"None", "missing.csv", "labels.csv"}
CsvPathExists(path) == path = "labels.csv"

\* df[df.columns[c]] of a frame: a Series, the values with their row index.
Column(df, c) ==
    [i \in 1..Len(df) |-> [idx |-> df[i].idx,
                           val |-> IF c = 0 THEN df[i].name ELSE df[i].label]]

\* return [[]], []
SoftFailResult == << << <<>> >>, <<>> >>

EmptyTrainError ==
    [type |-> "ValueError", what |-> "the resulting train set will be empty", path |-> <<>>]
ColumnIndexError ==
    [type |-> "IndexError", what |-> "index 1 is out of bounds for axis 0 with size 1",
     path |-> <<>>]
UnpackError ==
    [type |-> "ValueError", what |-> "not enough values to unpack (expected 4, got 2)",
     path |-> <<>>]

\* A split that gives the train partition 30% of the rows.
TrainSizeSwapped(n) == (3 * n) \div 10

\* train_size=0.7: n_train = floor(0.7 * n_samples)
TrainSize(n) == (7 * n) \div 10

\* train_test_split(df, train_size=0.7) on a frame of at least two rows: the
\* rows are shuffled; the first n_test rows of the shuffle are the test
\* partition and the next n_train rows the train partition.
TrainTestSplit(df) ==
    LET n == Len(df)
        n_train == TrainSize(n)
        n_test == n - n_train
    IN  {[train |-> [k \in 1..n_train |-> df[perm[n_test + k]]],
          test |-> [k \in 1..n_test |-> df[perm[k]]]] :
            perm \in Permutations(1..n)}

\* Rows of a frame with a given label, in frame order
RECURSIVE Group(_, _)
Group(df, c) ==
    IF df = <<>> THEN <<>>
    ELSE IF Head(df).label = c THEN <<Head(df)>> \o Group(Tail(df), c)
    ELSE Group(Tail(df), c)

ClassCount(df, c) == Len(Group(df, c))
MaxClassCount(df) ==
    IF df = <<>> THEN 0
    ELSE CHOOSE m \in {ClassCount(df, c) : c \in Labels} :
            \A c \in Labels : ClassCount(df, c) <= m

\* rebalance(train_df, label column): every class present is oversampled, with
\* replacement, up to the row count of the largest class.
RECURSIVE RebalanceFrom(_, _, _)
RebalanceFrom(df, acc, classes) ==
    IF classes = {} THEN {acc}
    ELSE LET c == CHOOSE x \in classes : TRUE
             g == Group(df, c)
             need == IF g = <<>> THEN 0 ELSE MaxClassCount(df) - Len(g)
         IN  UNION {RebalanceFrom(df, acc \o [k \in 1..need |-> g[pick[k]]],
                                  classes \ {c}) :
                        pick \in [1..need -> 1..Len(g)]}

rebalance(df) == RebalanceFrom(df, df, Labels)

\* The result of rebalance discarded: train_df is never reassigned.
BalancedFramesDiscarded(train, test, balance) == {<<train, test>>}

\* Lines 107-108: the frames read_csv_file returns columns of.
BalancedFrames(train, test, balance) ==
    IF balance
    THEN {<<tr, test>> : tr \in rebalance(train)}
    ELSE {<<train, test>>}

\* Line 111
ReadCsvReturn(train, test) ==
    <<Column(train, 0), Column(train, 1), Column(test, 0), Column(test, 1)>>

NoCalls == [split |-> FALSE, rebalance |-> FALSE]

SoftFail(msg) ==
    [out |-> Returned(SoftFailResult), train_df |-> <<>>, test_df |-> <<>>,
     stdout |-> <<msg>>, called |-> NoCalls]

\* read_csv_file(path, balance) with table t behind "labels.csv": the set of
\* its possible executions (the split and the resampling are random).
ReadCsvExec(path, balance, t) ==
    IF path = "None" \/ ~CsvPathExists(path)
    THEN {SoftFail("WARNING: Path does not exist, or is None.")}
    ELSE IF t.ncols = 0
    THEN {SoftFail("WARNING: File has no columns")}
    ELSE LET df == read_csv(t)
         IN  \* train_test_split raises ValueError when n_train is 0: "the
             \* resulting train set will be empty".
             IF TrainSize(Len(df)) = 0
             THEN {[out |-> Raised(EmptyTrainError), train_df |-> <<>>, test_df |-> <<>>,
                    stdout |-> <<>>, called |-> [NoCalls EXCEPT !.split = TRUE]]}
             ELSE UNION {
                    IF t.ncols < 2
                    THEN {[out |-> Raised(ColumnIndexError),
                           train_df |-> sp.train, test_df |-> sp.test, stdout |-> <<>>,
                           called |-> [NoCalls EXCEPT !.split = TRUE]]}
                    ELSE {[out |-> Returned(ReadCsvReturn(fr[1], fr[2])),
                           train_df |-> sp.train, test_df |-> sp.test, stdout |-> <<>>,
                           called |-> [split |-> TRUE, rebalance |-> balance]] :
                            fr \in BalancedFrames(sp.train, sp.test, balance)} :
                    sp \in TrainTestSplit(df)}

NoLoadOut == [kind |-> "none", value |-> <<>>, error |-> NoError, origin |-> ""]

\* read_csv_file and load_image_dataset keep nothing between calls, so a
\* behaviour makes one call, from the idle state.
CsvNotCalled == csvOut.kind = "none" /\ loadOut.kind = "none"

ReadCsvFile(path, balance) ==
    /\ CsvNotCalled
    /\ \E ex \in ReadCsvExec(path, balance, csvTable) :
          /\ csvOut' = ex.out
          /\ train_df' = ex.train_df
          /\ test_df' = ex.test_df
          /\ stdout' = ex.stdout
          /\ called' = ex.called
    /\ csvArgs' = [path |-> path, balance |-> balance]
    /\ UNCHANGED <<csvTable, loadArgs, loadOut>>
    /\ UNCHANGED <<imgVars, pureVars>>

----------------------------------------------------------------------------
(* load_image_dataset *)

Values(series) == [i \in 1..Len(series) |-> series[i].val]

\* How read_images(names, d, parallel) can end (the runs of ReadImagesCall,
\* WorkerComplete, ParallelReturn and ParallelRaise, summarised).
ReadImagesOutcomes(names, d, parallel) ==
    LET paths == img_paths(names, d)
        bad == {i \in 1..Len(names) : ~_image_to_array(paths[i]).ok}
    IN  IF ~IsDir(d) THEN {Raised(DirMissing(d))}
        ELSE IF parallel /\ bad # {}
        THEN {Raised(_image_to_array(paths[i]).error) : i \in bad}
        ELSE {SequentialDecode(paths, <<>>)}

FromCallee(r, who) == [kind |-> r.kind, value |-> r.value, error |-> r.error, origin |-> who]

\* load_image_dataset(csv_file_path, images_path, parallel)
LoadOutcomes(path, d, parallel, t) ==
    UNION {
      IF ex.out.kind = "raise" THEN {FromCallee(ex.out, "read_csv_file")}
      ELSE IF Len(ex.out.value) # 4
      THEN {FromCallee(Raised(UnpackError), "load_image_dataset")}
      ELSE UNION {
             IF r1.kind = "raise" THEN {FromCallee(r1, "read_images")}
             ELSE {IF r2.kind = "raise" THEN FromCallee(r2, "read_images")
                   ELSE FromCallee(Returned(<<r1.value, Values(ex.out.value[2]),
                                              r2.value, Values(ex.out.value[4])>>), "") :
                      r2 \in ReadImagesOutcomes(Values(ex.out.value[3]), d, parallel)} :
             r1 \in ReadImagesOutcomes(Values(ex.out.value[1]), d, parallel)} :
      ex \in ReadCsvExec(path, TRUE, t)}

LoadImageDataset(path, d, parallel) ==
    /\ CsvNotCalled
    /\ loadOut' \in LoadOutcomes(path, d, parallel, csvTable)
    /\ loadArgs' = [path |-> path, dir |-> d, parallel |-> parallel]
    /\ UNCHANGED <<csvTable, csvArgs, train_df, test_df, csvOut, stdout, called>>
    /\ UNCHANGED <<imgVars, pureVars>>

----------------------------------------------------------------------------
(* normalize_images *)

\* Images of two pixels with intensities at the ends of the 8-bit range.
PixelIdx == {1, 2}
Intensities == {0, 255}
Images == [PixelIdx -> Intensities]
TrainBatches == UNION {[1..n -> Images] : n \in 1..MaxBatch}
TestBatches == UNION {[1..n -> Images] : n \in 0..MaxBatch}

\* The divisor of lines 160 and 161
Scale == 255

\* Quotients are kept exact, as numerator and positive denominator; the
\* rounding of floating-point division is not modelled.
RECURSIVE PixelSum(_, _)
PixelSum(batch, p) ==
    IF batch = <<>> THEN 0 ELSE Head(batch)[p] + PixelSum(Tail(batch), p)

\* (batch - mean) / 255., where the mean image is total / n at each pixel
Centered(batch, total, n) ==
    [i \in 1..Len(batch) |->
        [p \in PixelIdx |-> [num |-> n * batch[i][p] - total[p], den |-> Scale * n]]]

\* Each partition centred on its own mean.
NormalizeImagesOwnMean(xtr, xte) ==
    [train |-> Centered(xtr, [p \in PixelIdx |-> PixelSum(xtr, p)], Len(xtr)),
     test |-> Centered(xte, [p \in PixelIdx |-> PixelSum(xte, p)], Len(xte))]

\* normalize_images(x_train, x_test): x_train_mean = np.mean(x_train, axis=0)
\* is the per-pixel average over the images of the train batch.
NormalizeImages(xtr, xte) ==
    LET x_train_mean == [p \in PixelIdx |-> PixelSum(xtr, p)]
    IN  [train |-> Centered(xtr, x_train_mean, Len(xtr)),
         test |-> Centered(xte, x_train_mean, Len(xtr))]

NoNorm == [train |-> <<>>, test |-> <<>>]

NormalizeCall(xtr, xte) ==
    /\ x_train = <<>>
    /\ x_train' = xtr
    /\ x_test' = xte
    /\ normOut' = NormalizeImages(xtr, xte)
    /\ UNCHANGED <<medImages, medOut>>
    /\ UNCHANGED <<imgVars, csvVars>>

----------------------------------------------------------------------------
(* compute_median_dimensions *)

\* Per-image shapes (height, width, channels): square images, colour or
\* grayscale.  Each axis is reduced on its own.
Shapes == {<<h, h, c>> : h \in {8, 10, 11, 12}, c \in {1, 3}}

\* The argument: None, a 0-d array, or a batch of images of these shapes.
NoImages == [kind |-> "unset", shapes |-> <<>>]
ImageArgs ==
    {[kind |-> k, shapes |-> <<>>] : k \in {"None", "0-d"}} \cup
    {[kind |-> "batch", shapes |-> b] : b \in UNION {[1..n -> Shapes] : n \in 1..MaxImages}}

RECURSIVE Insert(_, _)
Insert(sorted, v) ==
    IF sorted = <<>> THEN <<v>>
    ELSE IF v <= Head(sorted) THEN <<v>> \o sorted
    ELSE <<Head(sorted)>> \o Insert(Tail(sorted), v)

RECURSIVE Sort(_)
Sort(s) == IF s = <<>> THEN <<>> ELSE Insert(Sort(Tail(s)), Head(s))

\* np.median of a non-empty column, doubled so that it stays an integer: the
\* middle value, or the mean of the two middle values of an even count.
Median2(col) ==
    LET sorted == Sort(col)
        n == Len(col)
    IN  IF n % 2 = 1 THEN 2 * sorted[(n + 1) \div 2]
        ELSE sorted[n \div 2] + sorted[n \div 2 + 1]

\* A conversion that rounds halves up.
RoundHalfUp(m2) == (m2 + 1) \div 2

\* median_shape.astype(int) of a non-negative float: the fraction is dropped.
AsTypeInt(m2) == m2 \div 2

\* compute_median_dimensions(images)
ComputeMedianDimensions(images) ==
    IF images.kind \in {"None", "0-d"} THEN <<>>
    ELSE [a \in 1..3 |->
            AsTypeInt(Median2([i \in 1..Len(images.shapes) |-> images.shapes[i][a]]))]

MedianCall(images) ==
    /\ medImages = NoImages
    /\ medImages' = images
    /\ medOut' = ComputeMedianDimensions(images)
    /\ UNCHANGED <<x_train, x_test, normOut>>
    /\ UNCHANGED <<imgVars, csvVars>>

----------------------------------------------------------------------------
(* Specifications *)

NameLists == UNION {[1..n -> FileNames] : n \in 0..MaxFiles}

ImagesIdle ==
    /\ imgPc = "idle"
    /\ imgArgs = [names |-> <<>>, dir |-> "imgs", parallel |-> FALSE]
    /\ pools = <<>>
    /\ results = EmptyBuf
    /\ arrival = <<>>
    /\ mapError = NoError
    /\ imgOut = NoOut
    /\ ncalls = 0

CsvIdle ==
    /\ csvArgs = [path |-> "None", balance |-> FALSE]
    /\ train_df = <<>>
    /\ test_df = <<>>
    /\ csvOut = NoOut
    /\ stdout = <<>>
    /\ called = NoCalls
    /\ loadArgs = [path |-> "None", dir |-> "imgs", parallel |-> FALSE]
    /\ loadOut = NoLoadOut

PureIdle ==
    /\ x_train = <<>>
    /\ x_test = <<>>
    /\ normOut = NoNorm
    /\ medImages = NoImages
    /\ medOut = <<>>

NoTable == [ncols |-> 0, labels |-> <<>>, missing |-> FALSE]

InitImages ==
    /\ ImagesIdle
    /\ CsvIdle
    /\ PureIdle
    /\ csvTable = NoTable

NextImages ==
    \/ \E names \in NameLists, d \in Dirs, parallel \in BOOLEAN :
          ReadImagesCall(names, d, parallel)
    \/ \E i \in 1..MaxFiles : WorkerComplete(i)
    \/ ParallelReturn
    \/ ParallelRaise

SpecImages == InitImages /\ [][NextImages]_vars

InitCsv ==
    /\ ImagesIdle
    /\ CsvIdle
    /\ PureIdle
    /\ csvTable \in Tables

NextCsv ==
    \/ \E path \in CsvPaths, balance \in BOOLEAN : ReadCsvFile(path, balance)
    \/ \E path \in CsvPaths, d \in Dirs, parallel \in BOOLEAN :
          LoadImageDataset(path, d, parallel)

SpecCsv == InitCsv /\ [][NextCsv]_vars

InitPure ==
    /\ ImagesIdle
    /\ CsvIdle
    /\ PureIdle
    /\ csvTable = NoTable

NextNorm == \E xtr \in TrainBatches, xte \in TestBatches : NormalizeCall(xtr, xte)

SpecNorm == InitPure /\ [][NextNorm]_vars

NextMedian == \E images \in ImageArgs : MedianCall(images)

SpecMedian == InitPure /\ [][NextMedian]_vars

----------------------------------------------------------------------------
(* Properties of read_images *)

CallEnded == imgPc \in {"returned", "raised"}
CallPaths == img_paths(imgArgs.names, imgArgs.dir)
MissingInputs == {i \in 1..Len(imgArgs.names) : imgArgs.names[i] \notin DiskFiles}

\* C1: read_images preserves input order in both modes: whatever the order in
\* which the workers complete, a returned batch has one element per input
\* file name, element i is the decoded image of file name i, and the batch
\* is the one the sequential mode returns for the same arguments.
C1_OrderPreserved ==
    imgOut.kind = "return" =>
        /\ Len(imgOut.value) = Len(imgArgs.names)
        /\ \A i \in 1..Len(imgArgs.names) :
              /\ imgOut.value[i].src = PathJoin(imgArgs.dir, imgArgs.names[i])
              /\ Len(imgOut.value[i].shape) = 3
        /\ imgOut = SequentialDecode(CallPaths, <<>>)

\* A parallel call over distinct files has returned although the last task
\* was the first to complete.
C1_Witness ==
    /\ imgOut.kind = "return"
    /\ imgArgs.parallel
    /\ Len(imgArgs.names) = MaxFiles
    /\ imgArgs.names[1] # imgArgs.names[MaxFiles]
    /\ arrival[1] = MaxFiles

\* C2: a decode failure of any single image aborts the whole call with the
\* error of a failing image: a call that returns a batch had no missing
\* file, and a call over an existing directory with a missing file ends by
\* raising the ValueError of one of its missing files and returns nothing.
C2_DecodeFailureAborts ==
    /\ imgOut.kind = "return" =>
          /\ MissingInputs = {}
          /\ Len(imgOut.value) = Len(imgArgs.names)
    /\ (CallEnded /\ IsDir(imgArgs.dir) /\ MissingInputs # {}) =>
          /\ imgOut.kind = "raise"
          /\ imgOut.value = <<>>
          /\ \E i \in MissingInputs : imgOut.error = ImageMissing(CallPaths[i])

\* A parallel call failed on a missing file after another image had been
\* decoded and stored.
C2_Witness ==
    /\ imgPc = "raised"
    /\ imgArgs.parallel
    /\ imgOut.error.what = "image does not exist"
    /\ DOMAIN results # {}

\* C6: every parallel call creates its own pool and has closed and joined it
\* by the time the call ends, whether it returns or fails: once a call has
\* ended, no pool is still running.
C6_PoolsTornDown ==
    CallEnded => \A k \in 1..Len(pools) : pools[k] = "joined"

----------------------------------------------------------------------------
(* Properties of read_csv_file and load_image_dataset *)

CsvCalled == csvOut.kind # "none"
LoadCalled == loadOut.kind # "none"
SoftCase(path) == path \in {"None", "missing.csv"} \/ csvTable.ncols = 0
NormalCase == CsvCalled /\ csvArgs.path = "labels.csv" /\ csvTable.ncols = 2
NRows == Len(csvTable.labels)
Idx(series) == {series[i].idx : i \in 1..Len(series)}
CountOf(series, c) == Cardinality({i \in 1..Len(series) : series[i].val = c})

\* C3: with a path that is None or does not exist, or a table of zero
\* columns, read_csv_file does not raise: it prints a warning and returns an
\* empty file-name list and an empty label list, and calls neither the split
\* nor the rebalancing.
C3_SoftFailureEmpty ==
    (CsvCalled /\ SoftCase(csvArgs.path)) =>
        /\ csvOut.kind = "return"
        /\ Len(stdout) = 1
        /\ ~called.split /\ ~called.rebalance
        /\ csvOut.value[1] = <<>>
        /\ csvOut.value[2] = <<>>

\* C4: in every result read_csv_file returns, each label sequence is as long
\* as the file-name sequence it is paired with.
C4_LabelsMatchNames ==
    csvOut.kind = "return" =>
        \A k \in {1, 3} :
            k < Len(csvOut.value) => Len(csvOut.value[k + 1]) = Len(csvOut.value[k])

\* C5: load_image_dataset raises only errors that come from read_csv_file or
\* read_images; when the CSV path is missing it gets an empty split and goes
\* on with it, so over an existing images directory it returns.
C5_LoadErrorsFromCallees ==
    /\ loadOut.kind = "raise" => loadOut.origin \in {"read_csv_file", "read_images"}
    /\ (LoadCalled /\ loadArgs.path \in {"None", "missing.csv"} /\ IsDir(loadArgs.dir)) =>
          loadOut.kind = "return"

\* What C7 says of a returned split: disjoint partitions that hold every row
\* exactly once, each entry the row of its index, 70% in train within one row.
SplitCoversTable ==
    /\ csvOut.kind = "return"
    /\ Len(csvOut.value) = 4
    /\ Idx(csvOut.value[1]) \cap Idx(csvOut.value[3]) = {}
    /\ Idx(csvOut.value[1]) \cup Idx(csvOut.value[3]) = 1..NRows
    /\ Len(csvOut.value[1]) + Len(csvOut.value[3]) = NRows
    /\ \A k \in {1, 3} : \A i \in 1..Len(csvOut.value[k]) :
          /\ csvOut.value[k][i].val = RowName(csvTable, csvOut.value[k][i].idx)
          /\ csvOut.value[k + 1][i] =
                [idx |-> csvOut.value[k][i].idx,
                 val |-> csvTable.labels[csvOut.value[k][i].idx]]
    /\ 10 * Len(csvOut.value[1]) - 7 * NRows <= 10
    /\ 7 * NRows - 10 * Len(csvOut.value[1]) <= 10

\* C7 as stated: with balance=False every table of N >= 1 rows, a single row
\* included, is split into disjoint partitions covering the table, 70% train.
C7_SplitAcceptsAnyNonEmpty ==
    (NormalCase /\ ~csvArgs.balance /\ NRows >= 1) => SplitCoversTable

\* C7 amended: with balance=False a table of N >= 2 rows is split into
\* disjoint partitions that together hold every row exactly once, the train
\* partition holding 70% of the rows within one row; a single-row table is
\* rejected with the split's ValueError (its train partition would be empty).
C7_SplitOfTwoOrMore ==
    (NormalCase /\ ~csvArgs.balance) =>
        /\ NRows >= 2 => SplitCoversTable
        /\ NRows = 1 => csvOut = Raised(EmptyTrainError)

\* An unbalanced read of a full-size table returned a shuffled split.
C7_Witness ==
    /\ NormalCase /\ ~csvArgs.balance
    /\ NRows = MaxRows
    /\ csvOut.kind = "return"
    /\ csvOut.value[1][1].idx = MaxRows
    /\ Len(csvOut.value[3]) >= 1

\* C8: with balance=True the returned test file names and labels are exactly
\* those of the split (what balance=False returns for the same split), no
\* test row enters the train partition, and every label class present in the
\* returned train partition has the same row count.
C8_RebalanceTrainOnly ==
    (NormalCase /\ csvArgs.balance /\ csvOut.kind = "return") =>
        /\ csvOut.value[3] = ReadCsvReturn(train_df, test_df)[3]
        /\ csvOut.value[4] = ReadCsvReturn(train_df, test_df)[4]
        /\ Idx(csvOut.value[1]) = Idx(Column(train_df, 0))
        /\ \A c, d \in Labels :
              (CountOf(csvOut.value[2], c) > 0 /\ CountOf(csvOut.value[2], d) > 0) =>
                  CountOf(csvOut.value[2], c) = CountOf(csvOut.value[2], d)

\* A balanced read whose split gave an unbalanced train partition and a test
\* partition holding both classes: train was oversampled.
C8_Witness ==
    /\ NormalCase /\ csvArgs.balance /\ csvOut.kind = "return"
    /\ Len(csvOut.value[1]) > Len(train_df)
    /\ CountOf(csvOut.value[4], "A") # CountOf(csvOut.value[4], "B")
    /\ Len(test_df) >= 2

----------------------------------------------------------------------------
(* Properties of normalize_images *)

NormCalled == x_train # <<>>
RSub(a, b) == [num |-> a.num * b.den - b.num * a.den, den |-> a.den * b.den]
REq(a, b) == a.num * b.den = b.num * a.den
RECURSIVE NumSum(_, _)
NumSum(batch, p) ==
    IF batch = <<>> THEN 0 ELSE Head(batch)[p].num + NumSum(Tail(batch), p)

\* C9: both partitions are centred on the mean of the train batch only and
\* scaled by 1/255: the train output averages to zero at every pixel, any two
\* outputs (train or test) differ by the difference of their inputs over 255,
\* and the train output is the same whatever test batch is passed.
C9_TrainMeanOnly ==
    NormCalled =>
        /\ Len(normOut.train) = Len(x_train) /\ Len(normOut.test) = Len(x_test)
        /\ \A p \in PixelIdx :
              /\ NumSum(normOut.train, p) = 0
              /\ \A j \in 1..Len(x_train) :
                    /\ \A i \in 1..Len(x_train) :
                          REq(RSub(normOut.train[i][p], normOut.train[j][p]),
                              [num |-> x_train[i][p] - x_train[j][p], den |-> 255])
                    /\ \A i \in 1..Len(x_test) :
                          REq(RSub(normOut.test[i][p], normOut.train[j][p]),
                              [num |-> x_test[i][p] - x_train[j][p], den |-> 255])
        /\ \A other \in TestBatches : NormalizeImages(x_train, other).train = normOut.train

\* A call whose train batch holds two different images and whose test batch
\* has another mean than the train batch.
C9_Witness ==
    /\ NormCalled
    /\ Len(x_train) = 2 /\ x_train[1] # x_train[2]
    /\ Len(x_test) >= 1
    /\ \E p \in PixelIdx :
          PixelSum(x_test, p) * Len(x_train) # PixelSum(x_train, p) * Len(x_test)

----------------------------------------------------------------------------
(* Properties of compute_median_dimensions *)

MedCalled == medImages.kind = "batch"
AxisMedian2(a) == Median2([i \in 1..Len(medImages.shapes) |-> medImages.shapes[i][a]])

\* Round-to-nearest of m2/2 with ties to the even integer
RoundHalfEven(m2) ==
    IF m2 % 2 = 0 THEN m2 \div 2
    ELSE IF (m2 \div 2) % 2 = 0 THEN m2 \div 2 ELSE m2 \div 2 + 1

\* C10 as stated: for every non-empty batch the result is, on each axis, the
\* median of the sizes rounded to the nearest integer (ties up or ties to
\* even), also when the median is a half-integer.
C10_MedianRounded ==
    MedCalled =>
        /\ Len(medOut) = 3
        /\ \A a \in 1..3 :
              medOut[a] \in {RoundHalfUp(AxisMedian2(a)), RoundHalfEven(AxisMedian2(a))}

\* C10 amended: for every non-empty batch the result is, on each axis, the
\* median of the sizes with its fraction dropped: the largest integer not
\* above the median, so a half-integer median gives the integer below it.
C10_MedianTruncated ==
    MedCalled =>
        /\ Len(medOut) = 3
        /\ \A a \in 1..3 :
              /\ 2 * medOut[a] <= AxisMedian2(a)
              /\ AxisMedian2(a) < 2 * medOut[a] + 2

\* A batch of two images whose heights have a half-integer median.
C10_Witness ==
    /\ MedCalled
    /\ Len(medImages.shapes) = 2
    /\ AxisMedian2(1) % 2 = 1
    /\ medOut[1] = 11

====
